---- MODULE Spec2Model ----
(***************************************************************************)
(* The session proxy of src/server.js: the in-memory session store, its    *)
(* file persistence, and the three request handlers (/api/session,         *)
(* /api/login, /api/schedule) as a state machine.  A handler is one action  *)
(* per segment between two awaits: Node runs a segment to completion, and  *)
(* other handlers, the periodic flush and the clock interleave only at the *)
(* awaits.                                                                 *)
(***************************************************************************)
EXTENDS Integers, Sequences, FiniteSets, TLC

\* ------------------------------------------------------------------ bounds
\* Number of clock advances explored.
MaxTicks == 2
\* Number of session tokens generateSessionToken hands out.
MaxTokens == 2
\* Browser: schedule requests in flight at once, days the view may be moved
\* away from today, and the last day the clock reaches.
MaxFetches == 2
MaxShift == 1
MaxDay == 1

\* ------------------------------------------------------------ vocabulary
\* Request slots, one per client: a client sends its next request when the
\* previous one is answered; the requests of two clients may overlap.
OneClient == {"r1"}
TwoClients == {"r1", "r2"}

\* Session tokens.  0 is the absent (falsy) token, 1..MaxTokens are the
\* tokens generateSessionToken returns, MaxTokens + 1 is a token the server
\* never issued.
NoToken == 0
IssuedTokens == 1..MaxTokens
UnknownToken == MaxTokens + 1
PresentedTokens == {NoToken, UnknownToken} \cup IssuedTokens
\* How a request presents its token: in the x-session-token header, in the
\* sessionToken cookie, or in the header beside a stale cookie.
TokenPairs ==
    {<<h, NoToken>> : h \in PresentedTokens}
        \cup {<<NoToken, c>> : c \in PresentedTokens}
        \cup {<<h, UnknownToken>> : h \in PresentedTokens}

\* Time is counted in days; Date.now() is a whole number of them.
\* src/server.js:37: 6 * 30 * 24 * 60 * 60 * 1000 ms.
maxAge == 6 * 30
\* The amounts the clock advances by: one day, or a whole maximum age.
Deltas == {1, maxAge}

\* A string the code scans is a sequence of pieces: "=" and ";" are the
\* characters the cookie pattern tells apart, any other piece is a run of
\* other characters.
RECURSIVE Join(_)
Join(s) == IF s = <<>> THEN "" ELSE Head(s) \o Join(Tail(s))

\* ------------------------------------------------------------ pure helpers
\* Length of the longest prefix of s, from position p, whose pieces are not c.
RECURSIVE RunLen(_, _, _)
RunLen(s, p, c) ==
    IF p > Len(s) \/ s[p] = c THEN 0 ELSE 1 + RunLen(s, p + 1, c)

\* cookieStr.match(/^([^=]+)=([^;]+)/): the match as <<name, value>>, or <<>>.
CookieMatch(cookieStr) ==
    LET n == RunLen(cookieStr, 1, "=")
        v == RunLen(cookieStr, n + 2, ";")
    IN  IF n >= 1 /\ n < Len(cookieStr) /\ v >= 1
        THEN << Join(SubSeq(cookieStr, 1, n)),
                Join(SubSeq(cookieStr, n + 2, n + 1 + v)) >>
        ELSE <<>>

\* Object.assign(target, source): source's keys override target's.
Assign(target, source) ==
    [k \in DOMAIN target \cup DOMAIN source |->
        IF k \in DOMAIN source THEN source[k] ELSE target[k]]

\* The empty object {}.
EmptyObj == [k \in {} |-> ""]

\* extractCookies(headers): each matching Set-Cookie string sets its name,
\* in header order, so a later string overrides an earlier one.
RECURSIVE ExtractFrom(_, _)
ExtractFrom(setCookieHeaders, cookies) ==
    IF setCookieHeaders = <<>> THEN cookies
    ELSE LET m == CookieMatch(Head(setCookieHeaders))
         IN  ExtractFrom(Tail(setCookieHeaders),
                         IF m = <<>> THEN cookies
                         ELSE Assign(cookies, (m[1] :> m[2])))

extractCookies(headers) == ExtractFrom(headers.setCookie, EmptyObj)

\* buildCookieString(cookies): the name=value pairs of the Cookie header
\* (the order of the pairs in the header is not modelled).
buildCookieString(cookies) == {<<k, cookies[k]>> : k \in DOMAIN cookies}


\* ------------------------------------------------------------------ state
VARIABLES
    sessionStore,   \* the Map sessionToken -> {cookies, timestamp}
    disk,           \* the session file SESSION_FILE
    now,            \* Date.now()
    ticks,          \* clock advances so far
    issued,         \* tokens generateSessionToken has returned so far
    process,        \* "running", or "crashed" by an uncaught rejection
    req,            \* per request slot: the handler's position and locals
    rejected,       \* tokens whose class-list call was answered 401
    currentViewDate, \* app.js: the date the browser client views
    clock,          \* app.js: new Date() in the browser, [day, hour]
    dom,            \* app.js: what the page shows
    fetches         \* app.js: the schedule fetches awaiting their response

serverVars == <<sessionStore, disk, now, ticks, issued, process, req, rejected>>
browserVars == <<currentViewDate, clock, dom, fetches>>
vars == <<sessionStore, disk, now, ticks, issued, process, req, rejected,
          currentViewDate, clock, dom, fetches>>

\* ---------------------------------------------------------- session store
\* The empty Map.
EmptyStore == [t \in {} |-> [cookies |-> EmptyObj, timestamp |-> 0]]

\* What loadSession returns for null.
NullSession == [cookies |-> EmptyObj, timestamp |-> 0]

\* What loadSession gives: whether a session is returned, the session, the
\* store it leaves, and whether it logged 'Session expired'.
Absent(store) ==
    [found |-> FALSE, session |-> NullSession, store |-> store,
     expired |-> FALSE]
Expired(store, sessionToken) ==
    [found |-> FALSE, session |-> NullSession,
     store |-> [k \in DOMAIN store \ {sessionToken} |-> store[k]],
     expired |-> TRUE]
Found(store, sessionToken) ==
    [found |-> TRUE, session |-> store[sessionToken], store |-> store,
     expired |-> FALSE]

\* A variant of loadSession that expires a session one day early (>= for >).
loadSessionEarly(store, sessionToken, t) ==
    IF sessionToken = NoToken \/ sessionToken \notin DOMAIN store
    THEN Absent(store)
    ELSE IF t - store[sessionToken].timestamp >= maxAge
         THEN Expired(store, sessionToken)
         ELSE Found(store, sessionToken)

\* A variant of loadSession without the age check.
loadSessionForever(store, sessionToken, t) ==
    IF sessionToken = NoToken \/ sessionToken \notin DOMAIN store
    THEN Absent(store)
    ELSE Found(store, sessionToken)

\* A variant of loadSession with sliding renewal: a session that is found
\* gets the time of the lookup as its timestamp.
loadSessionSliding(store, sessionToken, t) ==
    IF sessionToken = NoToken \/ sessionToken \notin DOMAIN store
    THEN Absent(store)
    ELSE IF t - store[sessionToken].timestamp > maxAge
         THEN Expired(store, sessionToken)
         ELSE Found([store EXCEPT ![sessionToken].timestamp = t], sessionToken)

\* loadSession(sessionToken) at time t.
loadSession(store, sessionToken, t) ==
    IF sessionToken = NoToken THEN Absent(store)
    ELSE IF sessionToken \notin DOMAIN store THEN Absent(store)
    ELSE LET session == store[sessionToken]
             sessionAge == t - session.timestamp
         IN  IF sessionAge > maxAge
             THEN Expired(store, sessionToken)
             ELSE Found(store, sessionToken)

\* saveSession(sessionToken, cookies) at time t: the store it leaves.
saveSession(store, sessionToken, cookies, t) ==
    [k \in DOMAIN store \cup {sessionToken} |->
        IF k = sessionToken THEN [cookies |-> cookies, timestamp |-> t]
        ELSE store[k]]

\* A variant that hands out the same token every time.
generateSessionTokenFixed(n) == 1

\* generateSessionToken(): 32 random bytes, modelled as the next unused token.
generateSessionToken(n) == n + 1

\* req.headers['x-session-token'] || req.cookies?.sessionToken
RequestToken(header, cookie) == IF header /= NoToken THEN header ELSE cookie

\* ------------------------------------------------------------ persistence
\* The file: absent, or present with a text; a text is a JSON object,
\* written as the sequence of its members, or (valid = FALSE) the unparsable
\* remains of a write that failed part-way.
NoFile == [exists |-> FALSE, valid |-> FALSE, members |-> <<>>]
FileOf(members) == [exists |-> TRUE, valid |-> TRUE, members |-> members]
BrokenFile == [exists |-> TRUE, valid |-> FALSE, members |-> <<>>]

\* The elements of a set of numbers in ascending order.
RECURSIVE Ascending(_)
Ascending(S) ==
    IF S = {} THEN <<>>
    ELSE LET m == CHOOSE x \in S : \A y \in S : x <= y
         IN  <<m>> \o Ascending(S \ {m})

\* The elements of a set in some fixed order.
RECURSIVE Listed(_)
Listed(S) ==
    IF S = {} THEN <<>>
    ELSE LET m == CHOOSE x \in S : TRUE IN <<m>> \o Listed(S \ {m})

\* A variant of the serialisation that leaves out the members whose value
\* is the empty string.
StringifyCookiesTruthy(cookies) ==
    LET names == Listed({k \in DOMAIN cookies : cookies[k] /= ""})
    IN  [j \in 1..Len(names) |-> <<names[j], cookies[names[j]]>>]

\* JSON.stringify of a cookies object: its name/value members.
StringifyCookies(cookies) ==
    LET names == Listed(DOMAIN cookies)
    IN  [j \in 1..Len(names) |-> <<names[j], cookies[names[j]]>>]

\* A variant of the serialisation that writes only the newest session.
JSONstringifyNewest(store) ==
    LET toks == Ascending({t \in DOMAIN store : \A u \in DOMAIN store : u <= t})
    IN  [j \in 1..Len(toks) |->
            << toks[j],
               [cookies |-> StringifyCookies(store[toks[j]].cookies),
                timestamp |-> store[toks[j]].timestamp] >>]

\* JSON.stringify(sessions, null, 2) of the object saveSessionsToDisk builds
\* from the Map (tokens are handed out in ascending order, which is the
\* Map's insertion order).
JSONstringify(store) ==
    LET toks == Ascending(DOMAIN store)
    IN  [j \in 1..Len(toks) |->
            << toks[j],
               [cookies |-> StringifyCookies(store[toks[j]].cookies),
                timestamp |-> store[toks[j]].timestamp] >>]

\* JSON.parse of a cookies object's members.
RECURSIVE ParseCookies(_, _)
ParseCookies(members, obj) ==
    IF members = <<>> THEN obj
    ELSE ParseCookies(Tail(members),
                      Assign(obj, (Head(members)[1] :> Head(members)[2])))

\* JSON.parse(data), then Object.entries(sessions).forEach(set) into `store`.
RECURSIVE LoadEntries(_, _)
LoadEntries(members, store) ==
    IF members = <<>> THEN store
    ELSE LET token == Head(members)[1]
             session == Head(members)[2]
         IN  LoadEntries(Tail(members),
                 [k \in DOMAIN store \cup {token} |->
                     IF k = token
                     THEN [cookies |-> ParseCookies(session.cookies, EmptyObj),
                           timestamp |-> session.timestamp]
                     ELSE store[k]])

\* loadSessionsFromDisk() into the empty Map of a starting process: the file
\* is read when it exists; a failed read or an unparsable text is caught and
\* leaves the Map empty.
loadSessionsFromDisk(file, readOk) ==
    IF ~file.exists THEN EmptyStore
    ELSE IF ~readOk \/ ~file.valid THEN EmptyStore
    ELSE LoadEntries(file.members, EmptyStore)

\* saveSessionsToDisk(): the file it leaves.  writeFileSync either succeeds,
\* fails before touching the file, or fails after truncating it; the error
\* is caught.
saveSessionsToDisk(store, file, outcome) ==
    CASE outcome = "ok"        -> FileOf(JSONstringify(store))
      [] outcome = "untouched" -> file
      [] outcome = "truncated" -> BrokenFile

WriteOutcomes == {"ok", "untouched", "truncated"}


\* --------------------------------------------------------- upstream portal
\* What the portal may answer with.  The status codes, Set-Cookie headers,
\* Location headers and bodies are drawn from these sets.
Statuses == {200, 302, 401, 500}

RvtCookie ==
    <<"__RequestVerificationToken", "=", "T1", ";", " path", "=", "/">>
AuthCookie ==
    <<".online_auth", "=", "A1", ";", " path", "=", "/", ";", " HttpOnly">>
\* A cookie cleared by the portal: an empty value, which the pattern of
\* extractCookies does not match.
ClearedCookie ==
    <<".online_auth", "=", ";", " expires", "=", "Thu, 01 Jan 1970">>

SetCookieHeaders == {<<>>, <<RvtCookie>>, <<AuthCookie>>, <<ClearedCookie>>}

\* Location headers: relative, absolute, neither, and absent.
NoLocation == "undefined"
Locations == {"/online/5198/x", "https://portal/y", "z", NoLocation}

\* An HTML body is the sequence of its tags, a tag the sequence of its
\* attributes <<name, value>>; text = FALSE is the empty body.
NoBody == [text |-> FALSE, tags |-> <<>>]
PageWithToken ==
    [text |-> TRUE,
     tags |-> << << <<"name", "__RequestVerificationToken">>,
                    <<"type", "hidden">>, <<"value", "csrf1">> >> >>]
PageWithoutToken ==
    [text |-> TRUE, tags |-> << << <<"name", "user_name">>, <<"value", "u">> >> >>]
\* The field is there but its value attribute comes first: no match.
PageValueFirst ==
    [text |-> TRUE,
     tags |-> << << <<"value", "csrf1">>,
                    <<"name", "__RequestVerificationToken">> >> >>]
LoginPageBodies == {NoBody, PageWithToken, PageWithoutToken, PageValueFirst}

\* An answer of the portal as the HTTP client hands it over: response = FALSE
\* is an error without a response (network failure, too many redirects).
Answer(status, setCookie, location, data) ==
    [response |-> TRUE, status |-> status, setCookie |-> setCookie,
     location |-> location, data |-> data]
NetworkError ==
    [response |-> FALSE, status |-> 0, setCookie |-> <<>>,
     location |-> NoLocation, data |-> NoBody]

\* A variant of validateStatus without its upper limit.
validateStatusFrom200(status) == status >= 200

\* validateStatus: (status) => status >= 200 && status < 400
validateStatus(status) == status >= 200 /\ status < 400
\* The HTTP client's default validateStatus: 2xx.
defaultValidateStatus(status) == status >= 200 /\ status < 300

\* How the HTTP client may settle a call made with maxRedirects: 0 and
\* validateStatus above.  A status that validateStatus refuses is a
\* rejection.  A 302 passes validateStatus, and the handlers cover both a
\* resolved 302 and a rejection carrying error.response.status === 302
\* (src/server.js:195, :293), so both deliveries are explored.
Deliveries(o) ==
    IF ~o.response THEN {"reject"}
    ELSE IF ~validateStatus(o.status) THEN {"reject"}
    ELSE IF o.status = 302 THEN {"resolve", "reject"}
    ELSE {"resolve"}

\* ------------------------------------------------------------- handlers
\* The JSON body of an answer to the client: the message (error, message or
\* authenticated), and the fields an answer may carry.
NoReply ==
    [msg |-> "", sessionToken |-> NoToken, sessionAge |-> 0, timestamp |-> 0,
     data |-> ""]
Reply(msg) == [NoReply EXCEPT !.msg = msg]

\* The body of an upstream request: the fields of the login form and of the
\* class-list payload that vary.
NoForm ==
    [RequestVerificationToken |-> "", user_name |-> "", password |-> "",
     mappings |-> "", date |-> -1]

\* A free request slot.
IdleReq ==
    [kind |-> "idle", pc |-> "idle", token |-> NoToken,
     username |-> "", password |-> "",
     cookies |-> EmptyObj, i |-> 0, currentUrl |-> "", csrfToken |-> "",
     date |-> -1, calls |-> <<>>, sent |-> {}, form |-> NoForm, last |-> 0,
     log |-> "", status |-> 0, reply |-> NoReply]

\* The slot after one more upstream call is issued: the step is logged, and
\* the Cookie header and the body of this latest call are kept.
Call(q, step, cookies, body) ==
    [q EXCEPT !.calls = Append(q.calls, step),
              !.sent = buildCookieString(cookies),
              !.form = body]

\* res.status(status).json(reply): the slot of a request that was answered.
\* The handler has returned: what stays is the answer, the token and the
\* cookies it worked with, its count of redirects, what loadSession
\* logged, and the log of its upstream calls (the steps, the body of the
\* last one, the last status received).
Respond(q, status, reply) ==
    [IdleReq EXCEPT !.kind = q.kind, !.pc = "done", !.token = q.token,
                    !.cookies = q.cookies, !.i = q.i, !.calls = q.calls,
                    !.form = q.form, !.last = q.last, !.log = q.log,
                    !.status = status, !.reply = reply]

\* The slot once the answer o of the portal has arrived: its status is
\* noted (0 for an error without a response).
Received(q, o) == [q EXCEPT !.last = IF o.response THEN o.status ELSE 0]

\* console.log('Session expired (older than 6 months)') of loadSession.
Logged(l) == IF l.expired THEN "Session expired (older than 6 months)" ELSE ""

\* --- GET /api/session (src/server.js:118-132)
\* The clock is read twice: by loadSession (line 36) for the expiry test and
\* again at line 129 for the reported age; `elapsed` is the time that has
\* passed between the two readings.
SessionCheck(r, header, cookie, elapsed) ==
    /\ process = "running"
    /\ req[r].pc = "idle"
    /\ elapsed > 0 => ticks < MaxTicks
    /\ LET sessionToken == RequestToken(header, cookie)
           l == loadSession(sessionStore, sessionToken, now)
           q == [IdleReq EXCEPT !.kind = "session", !.token = sessionToken,
                                !.log = Logged(l)]
       IN  /\ sessionStore' = l.store
           /\ req' = [req EXCEPT ![r] =
                 IF ~l.found \/ "cookies" \notin DOMAIN l.session
                 THEN Respond(q, 401, Reply("authenticated: false"))
                 ELSE Respond(q, 200,
                        [Reply("authenticated: true") EXCEPT
                            !.sessionAge =
                                (now + elapsed) - l.session.timestamp,
                            !.timestamp = l.session.timestamp])]
           /\ now' = IF l.found THEN now + elapsed ELSE now
           /\ ticks' = IF l.found /\ elapsed > 0 THEN ticks + 1 ELSE ticks
    /\ UNCHANGED <<disk, issued, process, rejected>>
    /\ UNCHANGED browserVars


\* --- POST /api/login (src/server.js:135-342)
\* The tracking cookies of step 1.  The random and time-dependent parts of
\* their values are not modelled.
initialCookies ==
    ("__utma" :> "1.rand.now.now.now.1") @@ ("__utmb" :> "1.3.10.now") @@
    ("__utmc" :> "1") @@ ("__utmz" :> "1.now.1.1.utmcsr") @@
    ("__utmt" :> "1") @@ ("__oauth_admin" :> "")

findAccountUrl == "find_account"
loginPageUrl == "log_in?user_name"
loginPostUrl == "log_in"

\* Logins that have generated no token yet.
LoginsInFlight ==
    Cardinality({r \in DOMAIN req :
                    req[r].kind = "login" /\ req[r].pc /= "done"})

\* A variant of the extraction whose pattern lost its name part: the first
\* non-empty value attribute of the page.
ExtractCsrfAnyValue(data) ==
    IF ~data.text THEN ""
    ELSE LET vals == {m \in UNION {{<<j, q>> : q \in 1..Len(data.tags[j])} :
                                     j \in 1..Len(data.tags)} :
                        /\ data.tags[m[1]][m[2]][1] = "value"
                        /\ data.tags[m[1]][m[2]][2] /= ""}
         IN  IF vals = {} THEN ""
             ELSE LET first == CHOOSE m \in vals : \A n \in vals :
                                  \/ m[1] < n[1]
                                  \/ m[1] = n[1] /\ m[2] <= n[2]
                  IN  data.tags[first[1]][first[2]][2]

\* html.match(/name="__RequestVerificationToken"[^>]+value="([^"]+)"/): the
\* captured value, or "" when loginPageResponse.data is empty or nothing
\* matches.  A match lies within one tag, starts at the leftmost name
\* attribute and, [^>]+ being greedy, ends at the last non-empty value
\* attribute after it.
ExtractCsrf(data) ==
    IF ~data.text THEN ""
    ELSE LET places == UNION {{<<j, p, q>> : p \in 1..Len(data.tags[j]),
                                             q \in 1..Len(data.tags[j])} :
                              j \in 1..Len(data.tags)}
             hits == {m \in places :
                        /\ m[2] < m[3]
                        /\ data.tags[m[1]][m[2]] =
                              <<"name", "__RequestVerificationToken">>
                        /\ data.tags[m[1]][m[3]][1] = "value"
                        /\ data.tags[m[1]][m[3]][2] /= ""}
         IN  IF hits = {} THEN ""
             ELSE LET first == CHOOSE m \in hits : \A n \in hits :
                                  \/ m[1] < n[1]
                                  \/ m[1] = n[1] /\ m[2] < n[2]
                                  \/ m[1] = n[1] /\ m[2] = n[2] /\ m[3] >= n[3]
                  IN  data.tags[first[1]][first[3]][2]

\* A variant of the auth check that tests the object, not the cookie:
\* if (allCookies), which any object passes.
HasAnyCookies(allCookies) == DOMAIN allCookies = DOMAIN allCookies

\* allCookies['.online_auth'] is truthy.
HasAuthCookie(allCookies) ==
    ".online_auth" \in DOMAIN allCookies /\ allCookies[".online_auth"] /= ""

\* A variant of the validation that looks at the username only.
MissingUsername(username, password) == username = ""

\* !username || !password: a field that is absent or the empty string.
MissingCredentials(username, password) == username = "" \/ password = ""

\* The handler up to its first await: validation, the tracking cookies and
\* the first find-account request.
LoginStart(r, username, password) ==
    /\ process = "running"
    /\ req[r].pc = "idle"
    /\ IF MissingCredentials(username, password)
       THEN req' = [req EXCEPT ![r] =
                Respond([IdleReq EXCEPT !.kind = "login"], 400,
                        Reply("Username and password required"))]
       ELSE /\ issued + LoginsInFlight < MaxTokens
            /\ req' = [req EXCEPT ![r] =
                Call([IdleReq EXCEPT !.kind = "login", !.pc = "find_account",
                        !.username = username, !.password = password,
                        !.cookies = initialCookies, !.i = 0,
                        !.currentUrl = findAccountUrl],
                     "find_account", initialCookies, NoForm)]
    /\ UNCHANGED <<sessionStore, disk, now, ticks, issued, process, rejected>>
    /\ UNCHANGED browserVars

\* The outer catch: res.status(500).json({error: 'Login failed', details}).
\* The cookies and the form are locals of the try block, out of scope here.
LoginFailed(q, details) ==
    Respond([q EXCEPT !.cookies = EmptyObj, !.form = NoForm], 500,
            [Reply("Login failed") EXCEPT !.data = details])

\* A variant that posts the form straight after the redirect loop.
AfterFindAccountPosts(q, resolved) ==
    Call([q EXCEPT !.pc = "post", !.currentUrl = loginPostUrl],
         "login_post", q.cookies,
         [NoForm EXCEPT !.user_name = q.username, !.password = q.password])

\* The request of the login page, issued once the redirect loop is left.
\* findAccountResponse.status (line 221) is read first: when no attempt
\* resolved, findAccountResponse is undefined and the read throws.
AfterFindAccount(q, resolved) ==
    IF ~resolved
    THEN LoginFailed(q, "TypeError: cannot read 'status' of undefined")
    ELSE Call([q EXCEPT !.pc = "login_page", !.currentUrl = loginPageUrl],
              "login_page", q.cookies, NoForm)

\* The url the loop requests after a 302 to `location`.
NextUrl(location) ==
    IF location = "/online/5198/x" THEN "https://operations.daxko.com" \o location
    ELSE IF location = "https://portal/y" THEN location
    ELSE findAccountUrl

\* A variant of the loop condition that allows a fourth attempt.
MoreAttemptsTo4(i) == i < 4

\* The condition of the redirect loop: for (let i = 0; i < 3; i++).
MoreAttempts(i) == i < 3

\* An answer to a find-account request (the loop body, lines 170-219).
FindAccountResponse(r, o, delivery) ==
    /\ process = "running"
    /\ req[r].kind = "login" /\ req[r].pc = "find_account"
    /\ delivery \in Deliveries(o)
    /\ LET q == Received(req[r], o)
           merged == [q EXCEPT !.cookies = Assign(q.cookies, extractCookies(o))]
       IN  req' = [req EXCEPT ![r] =
             IF delivery = "resolve"
             THEN AfterFindAccount(merged, TRUE)
             ELSE IF o.response /\ o.status = 302
             THEN IF o.location = NoLocation
                  THEN LoginFailed(merged,
                          "TypeError: cannot read 'startsWith' of undefined")
                  ELSE IF MoreAttempts(q.i + 1)
                  THEN Call([merged EXCEPT
                                !.i = q.i + 1,
                                !.currentUrl = NextUrl(o.location)],
                            "find_account", merged.cookies, NoForm)
                  ELSE AfterFindAccount(
                          [merged EXCEPT !.i = q.i + 1,
                                         !.currentUrl = NextUrl(o.location)],
                          FALSE)
             ELSE LoginFailed(q, "request failed")]
    /\ UNCHANGED <<sessionStore, disk, now, ticks, issued, process, rejected>>
    /\ UNCHANGED browserVars


\* The answer to the login-page request (lines 231-290): axios follows
\* redirects itself and resolves on a 2xx only; anything else is thrown to
\* the outer catch.  On a 2xx the cookies are merged, the anti-forgery token
\* is extracted and the form is posted.
LoginPageResponse(r, o) ==
    /\ process = "running"
    /\ req[r].kind = "login" /\ req[r].pc = "login_page"
    /\ LET q == Received(req[r], o)
           cookies == Assign(q.cookies, extractCookies(o))
           csrfToken == ExtractCsrf(o.data)
       IN  req' = [req EXCEPT ![r] =
             IF o.response /\ defaultValidateStatus(o.status)
             THEN Call([q EXCEPT !.pc = "post",
                                 !.cookies = cookies,
                                 !.csrfToken = csrfToken,
                                 !.currentUrl = loginPostUrl],
                       "login_post", cookies,
                       [NoForm EXCEPT !.RequestVerificationToken = csrfToken,
                                      !.user_name = q.username,
                                      !.password = q.password])
             ELSE LoginFailed(q, "request failed")]
    /\ UNCHANGED <<sessionStore, disk, now, ticks, issued, process, rejected>>
    /\ UNCHANGED browserVars

\* A variant in which only a resolved POST counts as completed.
PostResolved(o, delivery) == delivery = "resolve"

\* Whether the form POST counts as completed (lines 275-304): resolved, or
\* rejected with a 302, which the inner catch turns into the response.
PostCompleted(o, delivery) ==
    \/ delivery = "resolve"
    \/ o.response /\ o.status = 302

\* The answer to the form POST (lines 291-341): the cookies of the response
\* are merged and the auth cookie decides between a stored session and 401.
LoginPostResponse(r, o, delivery) ==
    /\ process = "running"
    /\ req[r].kind = "login" /\ req[r].pc = "post"
    /\ delivery \in Deliveries(o)
    /\ LET q == Received(req[r], o)
           allCookies == Assign(q.cookies, extractCookies(o))
           sessionToken == generateSessionToken(issued)
       IN  IF PostCompleted(o, delivery)
           THEN IF HasAuthCookie(allCookies)
                THEN /\ issued' = sessionToken
                     /\ sessionStore' =
                            saveSession(sessionStore, sessionToken, allCookies, now)
                     /\ req' = [req EXCEPT ![r] =
                            Respond([q EXCEPT !.cookies = allCookies,
                                              !.token = sessionToken],
                                    200,
                                    [Reply("Login successful") EXCEPT
                                        !.sessionToken = sessionToken])]
                ELSE /\ req' = [req EXCEPT ![r] =
                            Respond([q EXCEPT !.cookies = allCookies], 401,
                                    Reply("Login failed - invalid credentials"))]
                     /\ UNCHANGED <<sessionStore, issued>>
           ELSE /\ req' = [req EXCEPT ![r] = LoginFailed(q, "request failed")]
                /\ UNCHANGED <<sessionStore, issued>>
    /\ UNCHANGED <<disk, now, ticks, process, rejected>>
    /\ UNCHANGED browserVars


\* --- GET /api/schedule (src/server.js:345-467)
schedulePageUrl == "ClassSchedule.mvc"
classListUrl == "ClassSchedule.mvc/get_gxp_classes"

\* No date in the query string.
NoDate == -1
\* The dates a client asks for (a date is its day number).
Dates == {NoDate, 7}

\* The schedule page: its script block holds the props object completely,
\* holds text that JSON.parse refuses, or is not there.
SchedulePages == {"props", "unparsable", "absent"}
\* The bodies of the class-list endpoint.
ClassLists == {"classes-a", "classes-b"}

\* fetchScheduleMappings(cookies), from the answer to its request on: the
\* mappings, or null (ok = FALSE) on any error, which it catches itself.
fetchScheduleMappings(o) ==
    IF o.response /\ defaultValidateStatus(o.status) /\ o.data = "props"
    THEN [ok |-> TRUE, mappings |-> "instructors,areas,branches,gxp_account_id"]
    ELSE [ok |-> FALSE, mappings |-> "null"]

\* The handler up to its first await: the session lookup and the request of
\* the schedule page.
ScheduleStart(r, header, cookie, date) ==
    /\ process = "running"
    /\ req[r].pc = "idle"
    /\ LET sessionToken == RequestToken(header, cookie)
           l == loadSession(sessionStore, sessionToken, now)
           q == [IdleReq EXCEPT !.kind = "schedule", !.token = sessionToken,
                                !.log = Logged(l)]
       IN  /\ sessionStore' = l.store
           /\ req' = [req EXCEPT ![r] =
                 IF ~l.found \/ "cookies" \notin DOMAIN l.session
                 THEN Respond(q, 401, Reply("Not authenticated. Please log in."))
                 ELSE Call([q EXCEPT
                                !.pc = "mappings",
                                !.cookies = l.session.cookies,
                                !.date = IF date /= NoDate THEN date ELSE now,
                                !.currentUrl = schedulePageUrl],
                           "schedule_page", l.session.cookies, NoForm)]
    /\ UNCHANGED <<disk, now, ticks, issued, process, rejected>>
    /\ UNCHANGED browserVars

\* The answer to the schedule-page request (lines 401-450): without
\* mappings the request ends in 500, with them the class list is requested.
SchedulePageResponse(r, o) ==
    /\ process = "running"
    /\ req[r].kind = "schedule" /\ req[r].pc = "mappings"
    /\ LET q == Received(req[r], o)
           m == fetchScheduleMappings(o)
       IN  req' = [req EXCEPT ![r] =
             IF ~m.ok
             THEN Respond(q, 500, Reply("Failed to fetch schedule mappings"))
             ELSE Call([q EXCEPT !.pc = "classes",
                                 !.currentUrl = classListUrl],
                       "class_list", q.cookies,
                       [NoForm EXCEPT !.mappings = m.mappings,
                                      !.date = q.date])]
    /\ UNCHANGED <<sessionStore, disk, now, ticks, issued, process, rejected>>
    /\ UNCHANGED browserVars

\* A variant that answers with a body kept from before instead of the
\* body just received.
RelayKept(o) == "classes-a"

\* res.json(response.data): the body of the class-list answer, unmodified.
Relay(o) == o.data

\* The answer to the class-list POST (lines 439-466).  A 2xx body is relayed.
\* On a rejection with status 401 the session file is unlinked when it
\* exists; an unlinkSync that throws does so inside the catch block, so the
\* handler's promise rejects with nobody to catch it: no answer is sent and
\* the process either dies or goes on, as the runtime decides.
ClassListResponse(r, o, unlinkOk, survives) ==
    /\ process = "running"
    /\ req[r].kind = "schedule" /\ req[r].pc = "classes"
    /\ LET q == Received(req[r], o)
       IN  IF o.response /\ defaultValidateStatus(o.status)
           THEN /\ req' = [req EXCEPT ![r] =
                      Respond(q, 200, [NoReply EXCEPT !.data = Relay(o)])]
                /\ UNCHANGED <<disk, process, rejected>>
           ELSE IF o.response /\ o.status = 401
           THEN /\ rejected' = rejected \cup {q.token}
                /\ IF disk.exists /\ ~unlinkOk
                   THEN /\ req' = [req EXCEPT ![r] = [q EXCEPT !.pc = "hung"]]
                        /\ process' = IF survives THEN "running" ELSE "crashed"
                        /\ UNCHANGED disk
                   ELSE /\ disk' = NoFile
                        /\ req' = [req EXCEPT ![r] =
                              Respond(q, 401,
                                  Reply("Session expired. Please log in again."))]
                        /\ UNCHANGED process
           ELSE /\ req' = [req EXCEPT ![r] =
                      Respond(q, 500,
                          [Reply("Failed to fetch schedule") EXCEPT
                              !.data = "request failed"])]
                /\ UNCHANGED <<disk, process, rejected>>
    /\ UNCHANGED <<sessionStore, now, ticks, issued>>
    /\ UNCHANGED browserVars

\* --- everything else
\* setInterval(saveSessionsToDisk, 5 * 60 * 1000): the periodic flush.
Flush(outcome) ==
    /\ process = "running"
    /\ disk' = saveSessionsToDisk(sessionStore, disk, outcome)
    /\ UNCHANGED <<sessionStore, now, ticks, issued, process, req, rejected>>
    /\ UNCHANGED browserVars

\* Time passes.
Tick(d) ==
    /\ ticks < MaxTicks
    /\ now' = now + d
    /\ ticks' = ticks + 1
    /\ UNCHANGED <<sessionStore, disk, issued, process, req, rejected>>
    /\ UNCHANGED browserVars

\* The process is started again: a fresh Map, loaded from the file; the
\* requests that were in flight are gone.
Restart(readOk) ==
    /\ sessionStore' = loadSessionsFromDisk(disk, readOk)
    /\ process' = "running"
    /\ req' = [r \in DOMAIN req |-> IdleReq]
    /\ UNCHANGED <<disk, now, ticks, issued, rejected>>
    /\ UNCHANGED browserVars

\* The client is done with an answer; its slot is free for a next request.
Recycle(r) ==
    /\ req[r].pc = "done"
    /\ req' = [req EXCEPT ![r] = IdleReq]
    /\ UNCHANGED <<sessionStore, disk, now, ticks, issued, process, rejected>>
    /\ UNCHANGED browserVars

\* --------------------------------------------------------- browser client
\* src/public/app.js.  A date is the number of its day, a time of day its
\* hour and minute in the browser's time zone.
STUDIO_MIND_BODY == "Mind-Body Studio"
STUDIO_GROUP_EXERCISE == "Group Exercise Studio"

\* The text `${displayHour}:00 ${ampm}` of a time slot, by its parts.
SlotLabel(displayHour, ampm) ==
    [hour |-> displayHour, minutes |-> ":00 ", ampm |-> ampm]

\* generateHourlySlots(startHour, endHour): the labels of the hours from
\* startHour to endHour.
generateHourlySlots(startHour, endHour) ==
    [j \in 1..(endHour - startHour + 1) |->
        LET hour == startHour + j - 1
            ampm == IF hour >= 12 THEN "PM" ELSE "AM"
            displayHour == IF hour > 12 THEN hour - 12
                           ELSE IF hour = 0 THEN 12 ELSE hour
        IN  SlotLabel(displayHour, ampm)]

\* const GYM_HOURS = generateHourlySlots(6, 18)
GYM_HOURS == generateHourlySlots(6, 18)

\* A Date object holds an instant, counted here in minutes since the epoch
\* (milliseconds in the browser); null is the value of a failed parse.
DateOf(t) == [valid |-> TRUE, t |-> t]
NullDate == [valid |-> FALSE, t |-> 0]

\* new Date(): the instant the browser's clock shows.
newDate == DateOf(clock.t)

\* date.getHours() and the calendar day of date.getFullYear(), getMonth()
\* and getDate(), in the browser's time zone, clock.zone hours behind UTC.
getHours(date) == ((date.t \div 60) - clock.zone) % 24
getDate(date) == ((date.t \div 60) - clock.zone) \div 24

\* date.setDate(date.getDate() + days)
setDate(date, days) == DateOf(date.t + days * 24 * 60)

\* date.toISOString().split('T')[0]: the calendar day in UTC.
toISODate(date) == date.t \div (24 * 60)

\* isSameDay(date1, date2): the same year, month and day of the month.
isSameDay(date1, date2) == getDate(date1) = getDate(date2)

\* A Microsoft JSON date string, "/Date(<digits>)/", by its parts; digits = -1
\* stands for a text without digits in that place.
MSDate(digits) == [prefix |-> "/Date(", digits |-> digits, suffix |-> ")/"]
IsoText == [prefix |-> "2026-01-23T09:00:00", digits |-> -1, suffix |-> ""]

\* parseMSDate(msDateString): the Date of the digits when the text matches
\* /\/Date\((\d+)\)\//, else null.
parseMSDate(msDateString) ==
    IF /\ msDateString.prefix = "/Date("
       /\ msDateString.digits >= 0
       /\ msDateString.suffix = ")/"
    THEN DateOf(msDateString.digits)
    ELSE NullDate

\* formatTime(date): "H:00 AM/PM" of the date's hour.
formatTime(date) ==
    LET hour == getHours(date)
        ampm == IF hour >= 12 THEN "PM" ELSE "AM"
        displayHour == IF hour > 12 THEN hour - 12
                       ELSE IF hour = 0 THEN 12 ELSE hour
    IN  SlotLabel(displayHour, ampm)

\* A variant of parseTimeSlot that adds 12 to every PM hour.
parseTimeSlotNoon24(timeSlot) ==
    IF ~(timeSlot.hour >= 0 /\ timeSlot.minutes = ":00 "
            /\ timeSlot.ampm \in {"AM", "PM"})
    THEN 0
    ELSE IF timeSlot.ampm = "PM" THEN timeSlot.hour + 12
    ELSE IF timeSlot.hour = 12 THEN 0 ELSE timeSlot.hour

\* parseTimeSlot(timeSlot): the hour, in 24-hour format, of a slot label
\* matching /(\d+):00 (AM|PM)/, and 0 for any other text.
parseTimeSlot(timeSlot) ==
    IF ~(timeSlot.hour >= 0 /\ timeSlot.minutes = ":00 "
            /\ timeSlot.ampm \in {"AM", "PM"})
    THEN 0
    ELSE LET hour == timeSlot.hour
             ampm == timeSlot.ampm
             afternoon == IF ampm = "PM" /\ hour /= 12 THEN hour + 12 ELSE hour
         IN  IF ampm = "AM" /\ afternoon = 12 THEN 0 ELSE afternoon

\* classOccupiesSlot(classObj, timeSlot): both dates parse and the label of
\* the start time is the slot's label.
classOccupiesSlot(classObj, timeSlot) ==
    LET startDate == parseMSDate(classObj.start_date_time)
        endDate == parseMSDate(classObj.end_date_time)
    IN  IF ~startDate.valid \/ ~endDate.valid THEN FALSE
        ELSE formatTime(startDate) = timeSlot

\* The grid element: empty, an error message, or the rendered rows with the
\* cells shown as booked.
EmptyGrid == [kind |-> "empty", rows |-> <<>>, booked |-> {}]
ErrorGrid == [kind |-> "error", rows |-> <<>>, booked |-> {}]

\* renderSchedule(classes, isToday): the availability of every slot of GYM_HOURS in the two
\* studios, the slots to show, and the html of their rows.
renderSchedule(classes, isToday) ==
    LET now_ == newDate
        currentHour == getHours(now_)
        studios == {STUDIO_MIND_BODY, STUDIO_GROUP_EXERCISE}
        slots == {GYM_HOURS[j] : j \in 1..Len(GYM_HOURS)}
        unavailable ==
            {cell \in slots \X studios :
                \E i \in 1..Len(classes) :
                    /\ classOccupiesSlot(classes[i], cell[1])
                    /\ classes[i].area_name = cell[2]}
        Show(timeSlot) == parseTimeSlot(timeSlot) >= currentHour
        hoursToShow == IF isToday THEN SelectSeq(GYM_HOURS, Show) ELSE GYM_HOURS
        shown == {hoursToShow[j] : j \in 1..Len(hoursToShow)}
    IN  [kind |-> "schedule", rows |-> hoursToShow,
         booked |-> {cell \in unavailable : cell[1] \in shown}]

\* The page before checkSession has answered: nothing rendered yet.
NoHeader == [text |-> <<>>, today |-> FALSE]
PageLoading ==
    [container |-> "none", header |-> NoHeader, grid |-> EmptyGrid,
     gridFor |-> <<>>, loading |-> FALSE, loginError |-> ""]

\* The script starts at the local hour `hour` of day 0 in a browser `zone`
\* hours behind UTC: let currentViewDate = new Date(), no request in flight.
PageLoad(hour, zone) ==
    /\ clock = [t |-> (hour + zone) * 60, zone |-> zone]
    /\ currentViewDate = DateOf((hour + zone) * 60)
    /\ dom = PageLoading
    /\ fetches = <<>>

\* loadSchedule() up to its await, run on the page d with the view date
\* `view`: the loading indicator shown, the grid cleared, the date header
\* written, and the request for the view date's toISOString() day sent.
\* dom.gridFor remembers which request's answer the grid holds.
loadSchedule(view, d) ==
    LET isToday == isSameDay(view, newDate)
    IN  /\ Len(fetches) < MaxFetches
        /\ currentViewDate' = view
        /\ dom' = [d EXCEPT !.loading = TRUE,
                            !.grid = EmptyGrid,
                            !.gridFor = <<>>,
                            !.header = [text |-> <<getDate(view)>>,
                                        today |-> isToday]]
        /\ fetches' = Append(fetches, [date |-> toISODate(view),
                                       isToday |-> isToday])
        /\ UNCHANGED clock

\* checkSession() from the answer of /api/session on: an authenticated
\* answer shows the schedule and loads it, any other answer or a failure
\* shows the login form.
checkSession(authenticated) ==
    /\ dom.container = "none"
    /\ IF authenticated
       THEN loadSchedule(currentViewDate, [dom EXCEPT !.container = "schedule"])
       ELSE /\ dom' = [dom EXCEPT !.container = "login"]
            /\ UNCHANGED <<currentViewDate, clock, fetches>>
    /\ UNCHANGED serverVars

\* handleLogin(e) with the answer of /api/login: an ok answer shows the
\* schedule and loads it, any other leaves a message in loginError.
LoginMessages ==
    {"Login failed. Please check your credentials.",
     "Network error. Please try again."}
handleLogin(ok, message) ==
    /\ dom.container = "login"
    /\ IF ok
       THEN loadSchedule(currentViewDate,
                         [dom EXCEPT !.container = "schedule",
                                     !.loginError = ""])
       ELSE /\ dom' = [dom EXCEPT !.loginError = message]
            /\ UNCHANGED <<currentViewDate, clock, fetches>>
    /\ UNCHANGED serverVars

\* The click listeners of init().
refreshClick ==
    /\ loadSchedule(currentViewDate, dom)
    /\ UNCHANGED serverVars

changeDate(days) ==
    /\ getDate(setDate(currentViewDate, days)) - getDate(newDate)
            \in (0 - MaxShift)..MaxShift
    /\ loadSchedule(setDate(currentViewDate, days), dom)
    /\ UNCHANGED serverVars

todayClick ==
    /\ loadSchedule(newDate, dom)
    /\ UNCHANGED serverVars

\* The answers of /api/schedule as the browser sees them: 401, a failure
\* (a status that is not ok, or a rejected fetch), or a body with or without
\* a gxp_classes list.
Unauthorized == [status |-> 401, has |-> FALSE, gxp_classes |-> <<>>]
Failure == [status |-> 500, has |-> FALSE, gxp_classes |-> <<>>]
Body(classes) == [status |-> 200, has |-> TRUE, gxp_classes |-> classes]
BodyWithoutClasses == [status |-> 200, has |-> FALSE, gxp_classes |-> <<>>]

\* loadSchedule() from the answer of its request on, for the i-th request in
\* flight: 401 shows the login form, a failure writes the error message, a
\* body is rendered with the isToday computed before the request was sent;
\* the loading indicator is hidden in every case.
scheduleResponse(i, answer) ==
    /\ i \in 1..Len(fetches)
    /\ fetches' = [j \in 1..(Len(fetches) - 1) |->
                      IF j < i THEN fetches[j] ELSE fetches[j + 1]]
    /\ dom' =
        IF answer.status = 401
        THEN [dom EXCEPT !.container = "login",
                         !.loginError =
                             "Your session has expired. Please log in again.",
                         !.loading = FALSE]
        ELSE IF answer.status \notin 200..299
        THEN [dom EXCEPT !.grid = ErrorGrid, !.gridFor = <<>>,
                         !.loading = FALSE]
        ELSE [dom EXCEPT !.grid = renderSchedule(
                                     IF answer.has THEN answer.gxp_classes
                                     ELSE <<>>,
                                     fetches[i].isToday),
                         !.gridFor = <<fetches[i].date>>,
                         !.loading = FALSE]
    /\ UNCHANGED <<currentViewDate, clock>>
    /\ UNCHANGED serverVars

\* The browser's clock moves on by `hours`, up to the end of day MaxDay.
ClockTick(hours) ==
    /\ getDate(DateOf(clock.t + hours * 60)) <= MaxDay
    /\ clock' = [clock EXCEPT !.t = @ + hours * 60]
    /\ UNCHANGED <<currentViewDate, dom, fetches>>
    /\ UNCHANGED serverVars

\* ------------------------------------------------------- specifications
\* The answers the portal gives to each kind of request.
FindAccountAnswers ==
    {Answer(302, h, l, NoBody) : h \in SetCookieHeaders, l \in Locations}
        \cup {Answer(s, h, NoLocation, NoBody) :
                s \in Statuses \ {302}, h \in SetCookieHeaders}
        \cup {NetworkError}
LoginPostAnswers ==
    {Answer(s, h, IF s = 302 THEN "/online/5198/x" ELSE NoLocation, NoBody) :
        s \in Statuses, h \in SetCookieHeaders}
        \cup {NetworkError}
LoginPageAnswers ==
    {Answer(s, h, NoLocation, b) :
        s \in Statuses \ {302}, h \in SetCookieHeaders, b \in LoginPageBodies}
        \cup {NetworkError}
SchedulePageAnswers ==
    {Answer(s, <<>>, NoLocation, b) : s \in Statuses \ {302}, b \in SchedulePages}
        \cup {NetworkError}
ClassListAnswers ==
    {Answer(s, <<>>, NoLocation, b) : s \in Statuses \ {302}, b \in ClassLists}
        \cup {NetworkError}

\* A portal that behaves: one redirect or a page, then the login form, then
\* a redirect with or without the auth cookie.
PlainRedirectAnswers ==
    {Answer(302, <<>>, "/online/5198/x", NoBody),
     Answer(200, <<>>, NoLocation, NoBody)}
PlainLoginPageAnswers == {Answer(200, <<>>, NoLocation, PageWithToken)}
PlainPostAnswers ==
    {Answer(302, <<AuthCookie>>, "/online/5198/x", NoBody),
     Answer(200, <<>>, NoLocation, NoBody)}

\* The state after construction, serving the clients R: no session file
\* yet, so the startup load leaves the Map empty.
ServerStart(R) ==
    /\ disk = NoFile
    /\ sessionStore = loadSessionsFromDisk(NoFile, TRUE)
    /\ now = 0
    /\ ticks = 0
    /\ issued = 0
    /\ process = "running"
    /\ req = [r \in R |-> IdleReq]
    /\ rejected = {}

\* The server's runs start with a page just loaded at nine in the morning.
InitWith(R) ==
    /\ ServerStart(R)
    /\ PageLoad(9, 0)

Init == InitWith(OneClient)
InitLogin == InitWith(TwoClients)

\* The steps of logins against a portal giving the answers fa, lp and po.
LoginSteps(fa, lp, po) ==
    \/ \E r \in DOMAIN req, u \in {"", "user"}, p \in {"", "secret"} :
          LoginStart(r, u, p)
    \/ \E r \in DOMAIN req, o \in fa, d \in {"resolve", "reject"} :
          FindAccountResponse(r, o, d)
    \/ \E r \in DOMAIN req, o \in lp : LoginPageResponse(r, o)
    \/ \E r \in DOMAIN req, o \in po, d \in {"resolve", "reject"} :
          LoginPostResponse(r, o, d)

SessionSteps ==
    \E r \in DOMAIN req, t \in TokenPairs, e \in {0, 1} :
        SessionCheck(r, t[1], t[2], e)

ScheduleSteps ==
    \/ \E r \in DOMAIN req, t \in TokenPairs, date \in Dates :
          ScheduleStart(r, t[1], t[2], date)
    \/ \E r \in DOMAIN req, o \in SchedulePageAnswers : SchedulePageResponse(r, o)
    \/ \E r \in DOMAIN req, o \in ClassListAnswers, u \in BOOLEAN, v \in BOOLEAN :
          ClassListResponse(r, o, u, v)

\* The login flow against every answer of the portal, two logins at a time.
NextLogin ==
    \/ LoginSteps(FindAccountAnswers, LoginPageAnswers, LoginPostAnswers)
    \/ \E r \in DOMAIN req : Recycle(r)

SpecLogin == InitLogin /\ [][NextLogin]_vars

\* The portal answers the upstream call that the login of slot r waits for.
UpstreamReturns(r) ==
    \/ \E o \in FindAccountAnswers, d \in {"resolve", "reject"} :
          FindAccountResponse(r, o, d)
    \/ \E o \in LoginPageAnswers : LoginPageResponse(r, o)
    \/ \E o \in LoginPostAnswers, d \in {"resolve", "reject"} :
          LoginPostResponse(r, o, d)

\* The login flow, one login at a time, when every upstream call returns:
\* an await that can be resumed is resumed.
SpecLoginFair ==
    /\ Init /\ [][NextLogin]_vars
    /\ \A r \in OneClient : WF_vars(UpstreamReturns(r))

\* The whole server, one client, against a portal that behaves during login.
Next ==
    \/ LoginSteps(PlainRedirectAnswers, PlainLoginPageAnswers, PlainPostAnswers)
    \/ SessionSteps
    \/ ScheduleSteps
    \/ \E w \in WriteOutcomes : Flush(w)
    \/ \E d \in Deltas : Tick(d)
    \/ \E ok \in BOOLEAN : Restart(ok)
    \/ \E r \in DOMAIN req : Recycle(r)

Spec == Init /\ [][Next]_vars

\* The browser's time zones: UTC, and five hours behind it.
Zones == {0, 5}

\* Classes of day 0 that the class list may hold, with times in the
\* browser's time zone.
At(hour, minute) == MSDate((hour + clock.zone) * 60 + minute)
Class(name, area, start, end) ==
    [name |-> name, area_name |-> area,
     start_date_time |-> start, end_date_time |-> end]
Yoga == Class("Yoga", STUDIO_MIND_BODY, At(9, 0), At(10, 0))
Spin == Class("Spin", STUDIO_GROUP_EXERCISE, At(10, 0), At(12, 0))
EarlyBird == Class("Early Bird", STUDIO_MIND_BODY, At(5, 30), At(6, 30))
Swim == Class("Swim", "Pool", At(9, 0), At(10, 0))
Undated == Class("Undated", STUDIO_GROUP_EXERCISE, IsoText, At(10, 0))
Closing == Class("Closing", STUDIO_GROUP_EXERCISE, At(18, 0), At(19, 0))

\* The grid hour by hour: a page loaded at midnight and refreshed while the
\* clock moves on in steps of one hour, against class lists of every kind.
GridAnswers ==
    {Unauthorized, Failure, BodyWithoutClasses, Body(<<>>),
     Body(<<Yoga, Spin>>), Body(<<EarlyBird, Swim>>),
     Body(<<Undated, Closing>>)}

InitGrid ==
    /\ ServerStart(OneClient)
    /\ \E zone \in Zones : PageLoad(0, zone)

NextGrid ==
    \/ \E authenticated \in BOOLEAN : checkSession(authenticated)
    \/ \E ok \in BOOLEAN, message \in LoginMessages : handleLogin(ok, message)
    \/ refreshClick
    \/ \E i \in 1..MaxFetches, answer \in GridAnswers :
            scheduleResponse(i, answer)
    \/ ClockTick(1)

SpecGrid == InitGrid /\ [][NextGrid]_vars

\* Moving between days: a page loaded in the morning or late in the
\* evening, every button clicked in any order while earlier requests are
\* still in flight, the clock moving on in steps of twelve hours.
BrowserAnswers == {Unauthorized, Failure, Body(<<Yoga>>)}

InitBrowser ==
    /\ ServerStart(OneClient)
    /\ \E hour \in {9, 21}, zone \in Zones : PageLoad(hour, zone)

NextBrowser ==
    \/ \E authenticated \in BOOLEAN : checkSession(authenticated)
    \/ \E ok \in BOOLEAN, message \in LoginMessages : handleLogin(ok, message)
    \/ refreshClick
    \/ changeDate(-1)
    \/ changeDate(1)
    \/ todayClick
    \/ \E i \in 1..MaxFetches, answer \in BrowserAnswers :
            scheduleResponse(i, answer)
    \/ ClockTick(12)

SpecBrowser == InitBrowser /\ [][NextBrowser]_vars


\* ------------------------------------------------------------------ claims
\* The slots that hold an answered request of the given kind.
Answered(kind) ==
    {r \in DOMAIN req : req[r].kind = kind /\ req[r].pc = "done"}

\* The slots that a step has just answered with a request of the given kind.
JustAnswered(kind) ==
    {r \in DOMAIN req :
        req[r].pc /= "done" /\ req'[r].pc = "done" /\ req'[r].kind = kind}

\* C1: once the class-list call of a schedule request for a token was
\* answered 401, every later GET /api/session presenting that token is
\* answered 401 {authenticated: false}.
C1_RejectedSessionUnauthenticated ==
    [][\A r \in JustAnswered("session") :
          req'[r].token \in rejected =>
              /\ req'[r].status = 401
              /\ req'[r].token \notin DOMAIN sessionStore']_vars

\* C2: a login that took three 302 redirects in the find-account step goes
\* on to request the login page, with the merged cookies in the Cookie header.
C2_ThreeRedirectsProceed ==
    \A r \in DOMAIN req :
        (req[r].kind = "login" /\ req[r].i = 3) =>
            /\ \E j \in 1..Len(req[r].calls) : req[r].calls[j] = "login_page"
            /\ req[r].pc = "login_page" =>
                  req[r].sent = {<<k, req[r].cookies[k]>> :
                                    k \in DOMAIN req[r].cookies}

\* C3: a lookup of a stored session made when its age exceeds the maximum
\* age returns absent and removes the entry; a lookup made when it does not
\* returns the session and leaves the entry as it is.  (The lookups are those
\* of GET /api/session and GET /api/schedule.)
C3_ExpiryOnLookup ==
    [][\A r \in DOMAIN req :
          ( /\ req[r].pc = "idle"
            /\ req'[r].kind \in {"session", "schedule"}
            /\ req'[r].token \in DOMAIN sessionStore ) =>
          LET t == req'[r].token
              age == now - sessionStore[t].timestamp
          IN  IF age > 6 * 30
              THEN /\ t \notin DOMAIN sessionStore'
                   /\ req'[r].log = "Session expired (older than 6 months)"
                   /\ req'[r].pc = "done" /\ req'[r].status = 401
                   /\ req'[r].calls = <<>>
              ELSE /\ t \in DOMAIN sessionStore'
                   /\ sessionStore'[t] = sessionStore[t]
                   /\ req'[r].log = ""
                   /\ req'[r].kind = "session" =>
                         /\ req'[r].status = 200
                         /\ req'[r].reply.timestamp = sessionStore[t].timestamp
                   /\ req'[r].kind = "schedule" =>
                         /\ req'[r].pc = "mappings"
                         /\ req'[r].cookies = sessionStore[t].cookies]_vars

\* C3's case: a session check found the session older than the maximum age,
\* answered 401, and the session is gone from the store.
C3_ExpiredLookupSeen ==
    \E r \in Answered("session") :
        /\ req[r].log = "Session expired (older than 6 months)"
        /\ req[r].status = 401
        /\ req[r].token \notin DOMAIN sessionStore
        /\ now > 6 * 30

\* The last upstream call a request made.
LastCall(q) == IF q.calls = <<>> THEN "" ELSE q.calls[Len(q.calls)]

\* C4: a login whose form POST completed (with a 200 or a 302) is answered
\* 200 with a session token exactly when its merged cookies hold the
\* .online_auth cookie, and 401 invalid credentials otherwise; never 500.
C4_AuthCookieDecides ==
    \A r \in Answered("login") :
        (LastCall(req[r]) = "login_post" /\ req[r].last \in {200, 302}) =>
            IF /\ ".online_auth" \in DOMAIN req[r].cookies
               /\ req[r].cookies[".online_auth"] /= ""
            THEN /\ req[r].status = 200
                 /\ req[r].reply.msg = "Login successful"
                 /\ req[r].reply.sessionToken = req[r].token
                 /\ req[r].token \in 1..issued
            ELSE /\ req[r].status = 401
                 /\ req[r].reply.msg = "Login failed - invalid credentials"
                 /\ req[r].reply.sessionToken = NoToken

\* C4's case: a form POST answered 200 without the auth cookie in the
\* merged cookies, and the login answered 401.
C4_RejectedDespite200 ==
    \E r \in Answered("login") :
        /\ LastCall(req[r]) = "login_post" /\ req[r].last = 200
        /\ ".online_auth" \notin DOMAIN req[r].cookies
        /\ req[r].status = 401

\* C5: a schedule request one of whose upstream calls is answered 401 is
\* answered 401; one whose upstream call fails otherwise is answered 500.
C5_Upstream401Surfaces ==
    \A r \in Answered("schedule") :
        req[r].calls /= <<>> =>
            /\ req[r].last = 401 => req[r].status = 401
            /\ req[r].last \notin {200, 401} => req[r].status = 500

\* C6: a schedule request that presents no token, an unknown token or the
\* token of an expired session is answered 401 at once, without any
\* upstream call.
C6_NoSessionNoUpstream ==
    [][\A r \in DOMAIN req :
          (req[r].pc = "idle" /\ req'[r].kind = "schedule") =>
          LET t == req'[r].token
              valid == /\ t \in DOMAIN sessionStore
                       /\ now - sessionStore[t].timestamp <= 6 * 30
          IN  ~valid => /\ req'[r].pc = "done"
                        /\ req'[r].status = 401
                        /\ req'[r].calls = <<>>]_vars

\* C6's case: a schedule request with the token of an expired session,
\* answered 401 with no upstream call made.
C6_ExpiredTokenRefused ==
    \E r \in Answered("schedule") :
        /\ req[r].log = "Session expired (older than 6 months)"
        /\ req[r].token \in 1..issued
        /\ req[r].status = 401
        /\ req[r].calls = <<>>

\* C7: a token enters the store only with the 200 answer of a login whose
\* merged cookies hold the auth cookie, or with the load of the file at
\* startup; no step of a login that is not its 200 answer changes the store.
C7_StoreGrowsOnlyByLogin ==
    [][ /\ \A t \in DOMAIN sessionStore' \ DOMAIN sessionStore :
              \/ \E r \in JustAnswered("login") :
                    /\ req'[r].status = 200
                    /\ req'[r].token = t
                    /\ ".online_auth" \in DOMAIN sessionStore'[t].cookies
                    /\ sessionStore'[t].cookies = req'[r].cookies
              \/ /\ \A r \in DOMAIN req : req'[r].pc = "idle"
                 /\ disk.exists /\ disk.valid
                 /\ \E j \in 1..Len(disk.members) : disk.members[j][1] = t
        /\ \A r \in DOMAIN req :
              ( /\ req'[r].kind = "login"
                /\ req'[r] /= req[r]
                /\ req'[r].status /= 200 ) => sessionStore' = sessionStore
      ]_vars

\* C7's case: a login answered 401 beside a session that an earlier login
\* stored.
C7_FailedLoginBesideSession ==
    \E r \in Answered("login") :
        /\ req[r].status = 401
        /\ sessionStore /= EmptyStore

\* C8: the file written from the store, loaded into the empty store of a
\* starting process, gives the same tokens, each with the same cookies and
\* the same timestamp.
C8_RoundTrip ==
    LET file == saveSessionsToDisk(sessionStore, disk, "ok")
        loaded == loadSessionsFromDisk(file, TRUE)
    IN  /\ DOMAIN loaded = DOMAIN sessionStore
        /\ \A t \in DOMAIN sessionStore :
              /\ DOMAIN loaded[t].cookies = DOMAIN sessionStore[t].cookies
              /\ \A k \in DOMAIN sessionStore[t].cookies :
                    loaded[t].cookies[k] = sessionStore[t].cookies[k]
              /\ loaded[t].timestamp = sessionStore[t].timestamp

\* C8's case: two sessions of different age in the store, the file written
\* from them, and the store of a freshly started process loaded from it.
C8_TwoSessionsReloaded ==
    /\ Cardinality(DOMAIN sessionStore) = 2
    /\ \E t, u \in DOMAIN sessionStore :
          sessionStore[t].timestamp < sessionStore[u].timestamp
    /\ disk = saveSessionsToDisk(sessionStore, disk, "ok")
    /\ sessionStore = loadSessionsFromDisk(disk, TRUE)

\* C9: no failure of a disk operation escapes as an uncaught error: the
\* process keeps running and every request is answered.
C9_DiskErrorsAreCaught ==
    /\ process = "running"
    /\ \A r \in DOMAIN req : req[r].pc /= "hung"


\* A page without any field named __RequestVerificationToken.
NoTokenField(data) ==
    \A j \in 1..Len(data.tags) : \A p \in 1..Len(data.tags[j]) :
        data.tags[j][p] /= <<"name", "__RequestVerificationToken">>

C11_MissingCredentials400 ==
    [][\A r \in DOMAIN req :
          (req[r].pc = "idle" /\ req'[r].kind = "login") =>
              \A u \in {"", "user"}, p \in {"", "secret"} :
                  LoginStart(r, u, p) =>
                      IF u = "" \/ p = ""
                      THEN /\ req'[r].pc = "done"
                           /\ req'[r].status = 400
                           /\ req'[r].reply.msg = "Username and password required"
                           /\ req'[r].calls = <<>>
                           /\ req'[r].sent = {}
                      ELSE /\ req'[r].pc = "find_account"
                           /\ req'[r].status /= 400]_vars

\* C11's case: a login answered 400 without any upstream call, while
\* another login is waiting for the portal.
C11_RefusedAtOnce ==
    \E r \in Answered("login") :
        /\ req[r].status = 400
        /\ req[r].calls = <<>>
        /\ \E s \in DOMAIN req : req[s].pc = "find_account"


\* C12: when an upstream call of a login fails with a network error or with
\* an error status (here 401 or 500), the login makes no further upstream
\* call, is answered 500 'Login failed' with the error's message as details,
\* and the store stays as it was.
C12_UpstreamFailureAborts ==
    [][\A r \in DOMAIN req :
          ( /\ req[r].kind = "login"
            /\ req[r].pc \in {"find_account", "login_page", "post"}
            /\ req'[r] /= req[r]
            /\ req'[r].kind = "login"
            /\ req'[r].last \in {0, 401, 500} ) =>
              /\ req'[r].pc = "done"
              /\ req'[r].status = 500
              /\ req'[r].reply.msg = "Login failed"
              /\ req'[r].reply.data = "request failed"
              /\ req'[r].reply.sessionToken = NoToken
              /\ req'[r].calls = req[r].calls
              /\ sessionStore' = sessionStore
              /\ issued' = issued]_vars

\* C12's case: a login whose login-page request failed with a 500 after a
\* find-account request had succeeded, answered 500 with no form POST; and a
\* login whose form POST met a network error.
C12_AbortedAfterFirstCall ==
    /\ \E r \in Answered("login") :
          /\ req[r].calls = <<"find_account", "login_page">>
          /\ req[r].last = 500
          /\ req[r].status = 500
    /\ \E r \in Answered("login") :
          /\ LastCall(req[r]) = "login_post"
          /\ req[r].last = 0
          /\ req[r].status = 500


FileRecords(file, t) ==
    IF file.exists /\ file.valid
    THEN {file.members[j][2] : j \in {i \in 1..Len(file.members) :
                                         file.members[i][1] = t}}
    ELSE {}

\* A record of the file holds the timestamp and the cookies of a session.
SameSession(record, session) ==
    /\ record.timestamp = session.timestamp
    /\ {record.cookies[j] : j \in 1..Len(record.cookies)} =
          {<<k, session.cookies[k]>> : k \in DOMAIN session.cookies}
    /\ Len(record.cookies) = Cardinality(DOMAIN session.cookies)

\* C14: no step changes the timestamp or the cookies of a session that
\* stays in the store, nor of a record that stays in the session file, and
\* a record of the file always equals the stored session of the same token:
\* what a session holds is what it was created with.
C14_SessionNeverChanges ==
    [][(sessionStore' /= sessionStore \/ disk' /= disk) =>
       /\ \A t \in DOMAIN sessionStore \cap DOMAIN sessionStore' :
             /\ sessionStore'[t].timestamp = sessionStore[t].timestamp
             /\ sessionStore'[t].cookies = sessionStore[t].cookies
       /\ \A t \in 1..issued' :
             /\ \A m \in FileRecords(disk, t), n \in FileRecords(disk', t) :
                   m = n
             /\ t \in DOMAIN sessionStore' =>
                   \A n \in FileRecords(disk', t) :
                       SameSession(n, sessionStore'[t])
       /\ \A t \in DOMAIN sessionStore' \ DOMAIN sessionStore :
             \/ sessionStore'[t].timestamp = now
             \/ \E m \in FileRecords(disk, t) :
                   SameSession(m, sessionStore'[t])]_vars

\* C14's case: a schedule request served and a session check answered for a
\* session created earlier, the session still holding its first timestamp
\* and its record flushed to the file.
C14_ServedLaterUnchanged ==
    \E r \in Answered("schedule") \cup Answered("session") :
        /\ req[r].status = 200
        /\ req[r].token \in DOMAIN sessionStore
        /\ sessionStore[req[r].token].timestamp = 0
        /\ now > 0
        /\ disk.exists /\ disk.valid
        /\ req[r].token \in DOMAIN loadSessionsFromDisk(disk, TRUE)


\* C15: once the class-list call of a schedule request for a token was
\* answered 401 and the request was answered, the session file holds no
\* record of that token, whatever flushes follow, and the store of a process
\* started later does not hold it.
C15_RejectedStaysOffDisk ==
    [][\A t \in rejected :
          (process = "running" /\ \A r \in DOMAIN req : req[r].pc /= "hung") =>
              /\ t \notin DOMAIN loadSessionsFromDisk(disk', TRUE)
              /\ Restart(TRUE) => t \notin DOMAIN sessionStore']_vars


\* C16: a form POST answered 302, however the HTTP client delivers it, is a
\* completed submission: the login is not answered 500, and when the merged
\* cookies hold the auth cookie (set by the redirect or earlier) it is
\* answered 200 and the stored session holds every cookie of the redirect
\* response and every cookie merged before it.
C16_RedirectIsCompletion ==
    [][\A r \in DOMAIN req :
          ( /\ req[r].kind = "login" /\ req[r].pc = "post"
            /\ req'[r] /= req[r] /\ req'[r].kind = "login"
            /\ req'[r].last = 302 ) =>
              /\ req'[r].pc = "done"
              /\ req'[r].status \in {200, 401}
              /\ \A o \in LoginPostAnswers, d \in {"resolve", "reject"} :
                    LoginPostResponse(r, o, d) =>
                    LET got == extractCookies(o)
                        t == req'[r].token
                    IN  ( \/ ".online_auth" \in DOMAIN got
                          \/ ".online_auth" \in DOMAIN req[r].cookies ) =>
                            /\ req'[r].status = 200
                            /\ t \in DOMAIN sessionStore' \ DOMAIN sessionStore
                            /\ \A k \in DOMAIN got :
                                  /\ k \in DOMAIN sessionStore'[t].cookies
                                  /\ sessionStore'[t].cookies[k] = got[k]
                            /\ \A k \in DOMAIN req[r].cookies \ DOMAIN got :
                                  /\ k \in DOMAIN sessionStore'[t].cookies
                                  /\ sessionStore'[t].cookies[k] =
                                        req[r].cookies[k]]_vars

\* C16's case: a login answered 200 after a form POST that was answered 302
\* with the auth cookie.
C16_RedirectSucceeded ==
    \E r \in Answered("login") :
        /\ req[r].last = 302
        /\ LastCall(req[r]) = "login_post"
        /\ req[r].status = 200
        /\ req[r].token \in DOMAIN sessionStore
        /\ sessionStore[req[r].token].cookies[".online_auth"] = "A1"


\* How often a step occurs among the upstream calls of a request.
Times(calls, step) ==
    Cardinality({j \in 1..Len(calls) : calls[j] = step})

\* C17: when every upstream call returns, every login is answered, and it is
\* answered once: the answer stays as it is until the slot is taken up
\* again.  A login makes at most 3 find-account requests, at most 1
\* login-page request and at most 1 form POST.
C17_LoginTerminatesBounded ==
    /\ \A r \in OneClient :
          (req[r].kind = "login" /\ req[r].pc /= "done")
              ~> (req[r].kind = "login" /\ req[r].pc = "done")
    /\ [][\A r \in DOMAIN req :
             /\ (req[r].kind = "login" /\ req[r].pc = "done") =>
                   (req'[r] = req[r] \/ req'[r] = IdleReq)
             /\ req'[r].kind = "login" =>
                   /\ Times(req'[r].calls, "find_account") <= 3
                   /\ Times(req'[r].calls, "login_page") <= 1
                   /\ Times(req'[r].calls, "login_post") <= 1
                   /\ Len(req'[r].calls) <= 5]_vars

\* C17's case: a login answered after three find-account requests, the
\* login-page request and the form POST.
C17_LongestLoginAnswered ==
    \E r \in Answered("login") :
        /\ Times(req[r].calls, "find_account") = 3
        /\ Times(req[r].calls, "login_page") = 1
        /\ Times(req[r].calls, "login_post") = 1
        /\ req[r].status \in {200, 401}


\* The upstream call a request waits for at each await.
Awaited(pc) ==
    CASE pc = "find_account" -> "find_account"
      [] pc = "login_page"   -> "login_page"
      [] pc = "post"         -> "login_post"
      [] pc = "mappings"     -> "schedule_page"
      [] pc = "classes"      -> "class_list"
      [] OTHER               -> ""

\* C18: a request has one upstream call outstanding at a time, the last one
\* it issued; a further call is issued only by the step that takes the
\* answer to the outstanding one, and in the order find-account (repeated),
\* login page, form POST for a login and schedule page, class list for a
\* schedule request; the request is answered by the step that takes the
\* answer to its last call, and an answered request issues no call.
C18_CallsInSequence ==
    [][\A r \in DOMAIN req :
          LET before == req[r].calls
              after == req'[r].calls
          IN  /\ req'[r].pc \notin {"idle", "done", "hung"} =>
                    /\ after /= <<>>
                    /\ Awaited(req'[r].pc) = after[Len(after)]
              /\ (after /= before /\ after /= <<>>) =>
                    /\ after = Append(before, after[Len(after)])
                    /\ req'[r].pc \notin {"idle", "done"}
                    /\ IF before = <<>>
                       THEN /\ req[r].pc = "idle"
                            /\ after[1] \in {"find_account", "schedule_page"}
                       ELSE /\ Awaited(req[r].pc) = before[Len(before)]
                            /\ <<before[Len(before)], after[Len(after)]>> \in
                                  {<<"find_account", "find_account">>,
                                   <<"find_account", "login_page">>,
                                   <<"login_page", "login_post">>,
                                   <<"schedule_page", "class_list">>}
              /\ (req'[r].pc = "done" /\ req[r].pc /= "done"
                     /\ before /= <<>>) =>
                    /\ after = before
                    /\ Awaited(req[r].pc) = before[Len(before)]
              /\ req[r].pc = "done" =>
                    (req'[r] = req[r] \/ req'[r] = IdleReq)]_vars

\* C18's case: a schedule request answered after its two calls, made with
\* the session that a completed login stored.
C18_BothChainsCompleted ==
    \E r \in Answered("schedule") :
        /\ req[r].calls = <<"schedule_page", "class_list">>
        /\ req[r].status = 200
        /\ req[r].token \in DOMAIN sessionStore
        /\ req[r].cookies = sessionStore[req[r].token].cookies
        /\ ".online_auth" \in DOMAIN req[r].cookies


\* The name and the value of a Set-Cookie header as the header gives them:
\* what stands before the first "=" and what stands between it and the
\* first ";", which may be nothing.
HeaderName(cookieStr) == cookieStr[1]
HeaderValue(cookieStr) ==
    IF Len(cookieStr) >= 3 /\ cookieStr[3] /= ";" THEN cookieStr[3] ELSE ""

\* The cookies overridden, name by name, by the Set-Cookie headers of one
\* response, in the order of the headers.
RECURSIVE Overridden(_, _)
Overridden(cookies, setCookie) ==
    IF setCookie = <<>> THEN cookies
    ELSE Overridden(
            [k \in DOMAIN cookies \cup {HeaderName(Head(setCookie))} |->
                IF k = HeaderName(Head(setCookie))
                THEN HeaderValue(Head(setCookie))
                ELSE cookies[k]],
            Tail(setCookie))

\* C19: a login starts from the synthesized tracking cookies; every response
\* it takes (find-account, login page, form POST) overrides them name by
\* name with its Set-Cookie values, the latest value winning and no name
\* being dropped; a successful login stores the cookies so merged.
C19_CookiesMergedInOrder ==
    [][\A r \in DOMAIN req :
          /\ (req[r].pc = "idle" /\ req'[r].pc = "find_account") =>
                req'[r].cookies = initialCookies
          /\ ( /\ req[r].kind = "login"
               /\ req[r].pc \in {"find_account", "login_page", "post"}
               /\ req'[r] /= req[r] /\ req'[r].kind = "login"
               /\ req'[r].status /= 500 ) =>
                /\ \A o \in FindAccountAnswers, d \in {"resolve", "reject"} :
                      FindAccountResponse(r, o, d) =>
                          req'[r].cookies = Overridden(req[r].cookies, o.setCookie)
                /\ \A o \in LoginPageAnswers :
                      LoginPageResponse(r, o) =>
                          req'[r].cookies = Overridden(req[r].cookies, o.setCookie)
                /\ \A o \in LoginPostAnswers, d \in {"resolve", "reject"} :
                      LoginPostResponse(r, o, d) =>
                          req'[r].cookies = Overridden(req[r].cookies, o.setCookie)
                /\ \A k \in DOMAIN req[r].cookies : k \in DOMAIN req'[r].cookies
                /\ req'[r].status = 200 =>
                      sessionStore'[req'[r].token].cookies = req'[r].cookies
      ]_vars


\* C20 as stated: every schedule request made with a valid session (one
\* that got past the session lookup to its upstream calls) issues a
\* class-list call.
C20_EveryRequestCallsClassList ==
    \A r \in Answered("schedule") :
        req[r].calls /= <<>> =>
            \E j \in 1..Len(req[r].calls) : req[r].calls[j] = "class_list"

\* C20, amended: every schedule request with a valid session fetches the
\* schedule page itself and, when that yields the mappings, issues its own
\* class-list call for the date it was asked for; a 200 answer carries the
\* body that this call returned and is given only after it.
C20_OwnCallOwnBody ==
    [][\A r \in DOMAIN req :
          /\ ( /\ req[r].pc = "idle" /\ req'[r].kind = "schedule"
               /\ req'[r].token \in DOMAIN sessionStore
               /\ now - sessionStore[req'[r].token].timestamp <= 6 * 30 ) =>
                /\ req'[r].pc = "mappings"
                /\ req'[r].calls = <<"schedule_page">>
                /\ \A d \in Dates \ {NoDate} :
                      ScheduleStart(r, req'[r].token, NoToken, d) =>
                          req'[r].date = d
          /\ (req[r].pc = "mappings" /\ req'[r] /= req[r]
                 /\ req'[r].kind = "schedule") =>
                \A o \in {x \in SchedulePageAnswers :
                            req'[r].last = IF x.response THEN x.status ELSE 0} :
                    SchedulePageResponse(r, o) =>
                        IF o.response /\ o.status = 200 /\ o.data = "props"
                        THEN /\ req'[r].pc = "classes"
                             /\ req'[r].calls = <<"schedule_page", "class_list">>
                             /\ req'[r].form.date = req[r].date
                             /\ req'[r].sent = buildCookieString(
                                    sessionStore[req[r].token].cookies)
                        ELSE /\ req'[r].pc = "done"
                             /\ req'[r].status = 500
          /\ (req[r].pc = "classes" /\ req'[r].pc = "done"
                 /\ req'[r].kind = "schedule") =>
                /\ req'[r].status = 200 <=> req'[r].last = 200
                /\ req'[r].status = 200 =>
                      \A o \in {x \in ClassListAnswers :
                                  x.response /\ x.status = 200} :
                          ClassListResponse(r, o, TRUE, TRUE) =>
                              req'[r].reply.data = o.data
          /\ (req'[r].kind = "schedule" /\ req'[r].pc = "done"
                 /\ req'[r].status = 200) =>
                /\ req[r].pc \in {"classes", "done"}
                /\ req'[r].calls = <<"schedule_page", "class_list">>]_vars

\* C20's case: a schedule request answered 200 with the second body of the
\* class-list endpoint, for a session created earlier.
C20_SecondBodyRelayed ==
    \E r \in Answered("schedule") :
        /\ req[r].status = 200
        /\ req[r].reply.data = "classes-b"
        /\ req[r].form.date = 7
        /\ req[r].calls = <<"schedule_page", "class_list">>

\* The class's interval from start to end overlaps the hour `hour` of the
\* class's day.
OverlapsHour(classObj, hour) ==
    LET startDate == parseMSDate(classObj.start_date_time)
        endDate == parseMSDate(classObj.end_date_time)
        from == ((getDate(startDate) * 24 + hour + clock.zone) * 60)
    IN  /\ startDate.valid
        /\ endDate.valid
        /\ startDate.t < from + 60
        /\ endDate.t > from

\* C21: when a class list is rendered, the cell of a shown hourly slot
\* between 6 AM and 6 PM and a studio is booked exactly when some returned
\* class of that studio overlaps that hour, so a class longer than one hour
\* books every hour it covers.
C21_BookedIffOverlap ==
    [][Len(fetches') < Len(fetches) =>
       \A i \in 1..Len(fetches), answer \in GridAnswers :
        (answer.status = 200 /\ scheduleResponse(i, answer))
        => \A hour \in 6..18,
              studio \in {STUDIO_MIND_BODY, STUDIO_GROUP_EXERCISE} :
            LET timeSlot == generateHourlySlots(hour, hour)[1]
            IN  (\E j \in 1..Len(dom'.grid.rows) :
                        dom'.grid.rows[j] = timeSlot)
                => (<<timeSlot, studio>> \in dom'.grid.booked
                    <=> \E k \in 1..Len(answer.gxp_classes) :
                          /\ answer.gxp_classes[k].area_name = studio
                          /\ OverlapsHour(answer.gxp_classes[k], hour))]_vars

\* C22: a session check or a schedule request made with one token, whatever
\* it finds (no session, an expired one, a live one, an upstream 401),
\* leaves every other token's session as it was: its entry in the store and
\* its record in the session file, from which a later restart restores it.
C22_OtherSessionsUntouched ==
    [][\A r \in DOMAIN req :
        (/\ (disk' /= disk \/ sessionStore' /= sessionStore)
         /\ req'[r] /= req[r]
         /\ req'[r].kind \in {"session", "schedule"})
        => \A t \in DOMAIN sessionStore \ {req'[r].token} :
              /\ t \in DOMAIN sessionStore'
              /\ sessionStore'[t] = sessionStore[t]
              /\ FileRecords(disk', t) = FileRecords(disk, t)]_vars

\* C23: whenever no schedule request is in flight and the page shows a
\* rendered grid, the grid holds the answer to the request for the date
\* written in the date header; a late answer for a date selected earlier
\* has not replaced the grid of the date selected last.
C23_GridMatchesHeader ==
    (/\ fetches = <<>>
     /\ dom.container = "schedule"
     /\ dom.grid.kind = "schedule")
    => dom.gridFor = dom.header.text

\* The requests in flight: started and not yet answered.
InFlight ==
    {r \in DOMAIN req : req[r].pc \notin {"idle", "done", "hung"}}

\* C24: a periodic flush whose write succeeds, in whatever state of the
\* server it runs (also between two steps of a login or a schedule request
\* in flight), leaves a session file that holds exactly the store of that
\* instant: one record for every stored token, with the session's timestamp
\* and all its cookies, and no record of another token.
C24_FlushWritesWholeStore ==
    [][(now' = now /\ req' = req /\ disk'.valid /\ Flush("ok"))
          => /\ disk'.exists /\ disk'.valid
             /\ Len(disk'.members) = Cardinality(DOMAIN sessionStore)
             /\ \A t \in DOMAIN sessionStore :
                   \E n \in FileRecords(disk', t) :
                       /\ FileRecords(disk', t) = {n}
                       /\ SameSession(n, sessionStore[t])
             /\ \A j \in 1..Len(disk'.members) :
                   disk'.members[j][1] \in DOMAIN sessionStore]_vars

\* C24's case: two sessions in the store, both in the file a flush has
\* written, while a request is in flight.
C24_FlushedInFlight ==
    /\ InFlight /= {}
    /\ Cardinality(DOMAIN sessionStore) = 2
    /\ disk.exists /\ disk.valid
    /\ \A t \in DOMAIN sessionStore :
          \E n \in FileRecords(disk, t) : SameSession(n, sessionStore[t])

\* C25: no step of a login removes or changes a session that is in the
\* store, and a login answered 200 has stored its session, with its cookies
\* and the time of the answer, under a token that was never handed out
\* before and that neither the store nor the session file knew; so after a
\* second login the first token still leads to the session it was given.
C25_LoginAddsFreshToken ==
    [][\A r \in DOMAIN req :
        (req'[r] /= req[r] /\ req'[r].kind = "login")
        => /\ \A t \in DOMAIN sessionStore :
                 /\ t \in DOMAIN sessionStore'
                 /\ sessionStore'[t] = sessionStore[t]
           /\ (req'[r].pc = "done" /\ req'[r].status = 200)
              => LET t == req'[r].reply.sessionToken
                 IN  /\ t \notin 1..issued
                     /\ t \notin DOMAIN sessionStore
                     /\ FileRecords(disk, t) = {}
                     /\ DOMAIN sessionStore' = DOMAIN sessionStore \cup {t}
                     /\ sessionStore'[t].timestamp = now
                     /\ sessionStore'[t].cookies = req'[r].cookies]_vars

\* C25's case: a second login has been answered 200 with token 2 at a later
\* time than the first, and token 1 still leads to the session of the first
\* login, stamped with the time of that login.
C25_SecondLoginBesideFirst ==
    \E r \in Answered("login") :
        /\ req[r].status = 200
        /\ req[r].reply.sessionToken = 2
        /\ DOMAIN sessionStore = {1, 2}
        /\ sessionStore[1].timestamp = 0
        /\ sessionStore[2].timestamp > 0
        /\ HasAuthCookie(sessionStore[1].cookies)

\* The instant of the hour `hour` and the minute `minute` of the day the
\* browser's clock shows, in the browser's time zone.
TodayAt(hour, minute) ==
    DateOf((getDate(newDate) * 24 + hour + clock.zone) * 60 + minute)

\* The requests in flight but the i-th.
WithoutFetch(i) ==
    [j \in 1..(Len(fetches) - 1) |->
        IF j < i THEN fetches[j] ELSE fetches[j + 1]]

\* C26: for every hour h of the day, on every day and in every time zone the
\* clock passes through, parseTimeSlot gives h back from the label
\* generateHourlySlots writes for h, and formatTime of a time within the
\* hour h is that label; and an answer that puts a new grid on the page,
\* when its request was made for today, shows exactly the slots of the
\* hours 6..18 that are not before the hour of the clock, in order (every
\* slot for a request of another day).
C26_LabelsRoundTrip ==
    [][/\ clock' /= clock =>
            \A hour \in 0..23 :
                LET timeSlot == generateHourlySlots(hour, hour)[1]
                IN  /\ parseTimeSlot(timeSlot) = hour
                    /\ formatTime(TodayAt(hour, 0)) = timeSlot
                    /\ formatTime(TodayAt(hour, 30)) = timeSlot
       /\ (/\ Len(fetches') < Len(fetches)
           /\ dom'.grid.kind = "schedule"
           /\ dom'.grid /= dom.grid)
          => \A i \in 1..Len(fetches) :
                fetches' = WithoutFetch(i)
                => LET currentHour == getHours(newDate)
                       first == IF currentHour > 6 THEN currentHour ELSE 6
                   IN  dom'.grid.rows =
                            IF fetches[i].isToday
                            THEN generateHourlySlots(first, 18)
                            ELSE generateHourlySlots(6, 18)]_vars

\* C26's case: today's grid rendered in the afternoon, its first row the
\* slot of the current hour, the morning's slots cut off.
C26_AfternoonGrid ==
    /\ fetches = <<>>
    /\ dom.header.today
    /\ dom.grid.kind = "schedule"
    /\ getHours(newDate) \in 13..17
    /\ Len(dom.grid.rows) = 18 - getHours(newDate) + 1
    /\ dom.grid.rows[1] = formatTime(newDate)
    /\ parseTimeSlot(dom.grid.rows[1]) = getHours(newDate)

====
